---- MODULE Spec2Model ----
(***************************************************************************)
(* The ECG engine of app.py: the ECGData object (twelve rolling sample     *)
(* buffers), its constructor, update_data, get_plot_base64 and the         *)
(* /update_ecg request handler that drives them.                           *)
(*                                                                         *)
(* Python positions are 0-based; a TLA+ sequence holds position p at index *)
(* p + 1.  Samples are floating-point values in the code; here a sample is *)
(* an integer token that records how the value was produced (see           *)
(* FillSample and NewSample), so that two samples are equal exactly when   *)
(* the same computation on the same random draws produced them.            *)
(***************************************************************************)
EXTENDS Integers, Sequences, FiniteSets, TLC

-----------------------------------------------------------------------------
(* Program constants *)

N == 500
K == 5
NumLeads == 12
ComplexFirst == 5
ComplexPitch == 50
ComplexSpan == 15

(* Bounds of the model *)

MaxPreempt == 1
MaxTicks == 100

Leads == 1..NumLeads
Slots == {1, 2}
SeqSlots == {1}
\* Random streams served one request at a time, and under concurrent handlers.
Seeds == {0, 3}
ConcSeeds == {0}

-----------------------------------------------------------------------------
(* Samples *)

\* Draws consumed by one update_data iteration: 1 uniform + K normals.
DrawsPerLead == 1 + K
\* The constructor draws N normals for each lead (line 43).
CtorDraws == NumLeads * N
DrawCap == CtorDraws + NumLeads * DrawsPerLead * (MaxTicks + 2) + 1

\* 1 + (lead_num % 3) * 0.5, in halves.
RFactor(lead_num) == 2 + (lead_num % 3)
\* Spike codes of a sample: 0 (none) and the factors RFactor can take.
SpikeCodes == RFactor(2) + 1

\* Sample p of the initial fill of a lead.
FillSample(p) == p
\* Sample x of new_points made by request `call`: spike is the R factor in
\* halves (0: no spike added), d the position of its noise draw.
NewSample(call, x, spike, d) ==
    N + ((call * DrawCap + d) * K + x) * SpikeCodes + spike
IsFill(s) == s < N
SpikeOf(s) == IF IsFill(s) THEN 0 ELSE (s - N) % SpikeCodes
IdxOf(s) == IF IsFill(s) THEN s ELSE ((s - N) \div SpikeCodes) % K
NoiseOf(s) == IF IsFill(s) THEN s ELSE (((s - N) \div SpikeCodes) \div K) % DrawCap
CallOf(s) == IF IsFill(s) THEN 0 ELSE (((s - N) \div SpikeCodes) \div K) \div DrawCap


\* First decimal digit of draw number d of the stream named sd:
\* np.random.random() < 0.1 exactly when the digit is 0.
Uniform(sd, d) == (sd + 7 * (d \div DrawsPerLead)) % 10

-----------------------------------------------------------------------------
(* Arrays *)

At(a, p) == a[p + 1]

\* np.zeros(500) / the value line 28 assigns: a fresh array of N samples.
FreshFill == [q \in 1..N |-> FillSample(q - 1)]

\* Mutant: the roll goes the other way (np.roll(a, +k)).
np_roll_right(a, k) == [q \in 1..Len(a) |-> a[((q - 1 - k) % Len(a)) + 1]]

\* np.roll(a, shift) for shift = -k: result[p] = a[(p + k) mod len].
np_roll(a, k) == [q \in 1..Len(a) |-> a[((q - 1 + k) % Len(a)) + 1]]

\* Mutant: the new samples are appended instead of overwriting the tail.
SetTail_append(a, v) == a \o v

\* Mutant: the new samples overwrite the head (a[:k] = v).
SetTail_head(a, v) ==
    [q \in 1..Len(a) |-> IF q <= Len(v) THEN v[q] ELSE a[q]]

\* a[-k:] = v, in place; numpy raises unless the lengths agree.
SetTail(a, v) ==
    [q \in 1..Len(a) |-> IF q > Len(a) - Len(v) THEN v[q - (Len(a) - Len(v))] ELSE a[q]]

\* Python's slice.indices(len) for step 1.
Clamp(x, len) == IF x < 0 THEN (IF x + len < 0 THEN 0 ELSE x + len)
                 ELSE (IF x > len THEN len ELSE x)
SliceStart(start, len) == Clamp(start, len)
SliceStop(stop, len) == Clamp(stop, len)
SliceLen(start, stop, len) ==
    IF SliceStop(stop, len) > SliceStart(start, len)
    THEN SliceStop(stop, len) - SliceStart(start, len) ELSE 0

\* a[start:stop] += v for an array v of m samples broadcasts only if the
\* slice has m samples (or m = 1); otherwise numpy raises ValueError.
Broadcasts(start, stop, len, m) == SliceLen(start, stop, len) = m \/ m = 1

-----------------------------------------------------------------------------
VARIABLES
    \* constructor (init_data)
    cpc, lead_num, i, fill,
    \* engine and request handlers
    seed, drawn, data, pc, call, lead, rolled, before, new_points, ret, plots,
    accepted, committed, running, preempts, budget

ctorVars == <<cpc, lead_num, i, fill>>
engVars == <<seed, drawn, data, pc, call, lead, rolled, before, new_points, ret, plots,
             accepted, committed, running, preempts, budget>>
vars == <<cpc, lead_num, i, fill,
          seed, drawn, data, pc, call, lead, rolled, before, new_points, ret, plots,
          accepted, committed, running, preempts, budget>>

\* The engine as the constructor is written to leave it: twelve arrays of N
\* samples, the random source advanced past the constructor's draws.
EngineInit ==
    /\ drawn = CtorDraws
    /\ data = [c \in Leads |-> FreshFill]
    /\ pc = [t \in Slots |-> "idle"]
    /\ call = [t \in Slots |-> 0]
    /\ lead = [t \in Slots |-> 0]
    /\ rolled = [t \in Slots |-> <<>>]
    /\ before = [t \in Slots |-> <<>>]
    /\ new_points = [t \in Slots |-> <<>>]
    /\ ret = [t \in Slots |-> "none"]
    /\ plots = [t \in Slots |-> <<>>]
    /\ accepted = 0
    /\ committed = 0
    /\ running = 0
    /\ preempts = 0

-----------------------------------------------------------------------------
(* The constructor: ECGData.__init__ and init_data, lines 14-43.           *)
(* __init__ binds twelve arrays of N zeros, then init_data rebuilds each   *)
(* lead: baseline (line 28), the complexes (lines 31-40), noise (line 43). *)
(* `fill` is the array of the lead being initialised; each sample is the   *)
(* set of the terms added to its baseline so far.  The loop body is        *)
(* entered at every start the loop's range yields (ComplexStarts), for     *)
(* every lead: the program itself enters it first at (lead_1, i = 5).      *)

PLen == 10
RLen == 2
SLen == 2
TLen == 7

\* range(5, 500, 50)
ComplexStarts == {s \in 0..(N - 1) : s >= ComplexFirst /\ (s - ComplexFirst) % ComplexPitch = 0}

\* a[start:stop] += v (or -=): the term is added to every sample of the slice.
AddSlice(a, start, stop, term) ==
    [q \in 1..Len(a) |->
        IF SliceStart(start, Len(a)) <= q - 1 /\ q - 1 < SliceStop(stop, Len(a))
        THEN a[q] \cup {term} ELSE a[q]]

\* a[p] -= v for an integer index p: IndexError unless -len <= p < len.
IndexOk(p, len) == -len <= p /\ p < len

CtorInit ==
    /\ lead_num \in Leads
    /\ i \in ComplexStarts
    /\ cpc = "guard"
    /\ fill = [q \in 1..N |-> {}]

\* line 32: if i+15 < 500
Guard ==
    /\ cpc = "guard"
    /\ cpc' = IF i + ComplexSpan < N THEN "P" ELSE "next"
    /\ UNCHANGED <<lead_num, i, fill>>
    /\ UNCHANGED engVars

\* line 34: self.data[lead][i-10:i] += np.sin(np.linspace(0, np.pi, 10)) * 0.2
OverlayP ==
    /\ cpc = "P"
    /\ IF Broadcasts(i - 10, i, Len(fill), PLen)
       THEN /\ fill' = AddSlice(fill, i - 10, i, "P")
            /\ cpc' = "Q"
       ELSE /\ cpc' = "raised"
            /\ fill' = fill
    /\ UNCHANGED <<lead_num, i>>
    /\ UNCHANGED engVars

\* line 36: self.data[lead][i] -= 0.2
OverlayQ ==
    /\ cpc = "Q"
    /\ IF IndexOk(i, Len(fill))
       THEN /\ fill' = AddSlice(fill, i, i + 1, "Q")
            /\ cpc' = "R"
       ELSE /\ cpc' = "raised"
            /\ fill' = fill
    /\ UNCHANGED <<lead_num, i>>
    /\ UNCHANGED engVars

\* line 37: self.data[lead][i+1:i+3] += np.linspace(0, 2, 2) * (1 + (lead_num % 3) * 0.5)
OverlayR ==
    /\ cpc = "R"
    /\ IF Broadcasts(i + 1, i + 3, Len(fill), RLen)
       THEN /\ fill' = AddSlice(fill, i + 1, i + 3, "R")
            /\ cpc' = "S"
       ELSE /\ cpc' = "raised"
            /\ fill' = fill
    /\ UNCHANGED <<lead_num, i>>
    /\ UNCHANGED engVars

\* line 38: self.data[lead][i+3:i+5] -= np.linspace(0.5, 0, 2) * 0.3
OverlayS ==
    /\ cpc = "S"
    /\ IF Broadcasts(i + 3, i + 5, Len(fill), SLen)
       THEN /\ fill' = AddSlice(fill, i + 3, i + 5, "S")
            /\ cpc' = "T"
       ELSE /\ cpc' = "raised"
            /\ fill' = fill
    /\ UNCHANGED <<lead_num, i>>
    /\ UNCHANGED engVars

\* line 40: self.data[lead][i+8:i+15] += np.sin(np.linspace(0, np.pi, 7)) * 0.3
OverlayT ==
    /\ cpc = "T"
    /\ IF Broadcasts(i + 8, i + 15, Len(fill), TLen)
       THEN /\ fill' = AddSlice(fill, i + 8, i + 15, "T")
            /\ cpc' = "next"
       ELSE /\ cpc' = "raised"
            /\ fill' = fill
    /\ UNCHANGED <<lead_num, i>>
    /\ UNCHANGED engVars

\* line 31: for i in range(5, 500, 50)
LoopNext ==
    /\ cpc = "next"
    /\ IF i + ComplexPitch < N
       THEN /\ i' = i + ComplexPitch
            /\ cpc' = "guard"
       ELSE /\ i' = i
            /\ cpc' = "noise"
    /\ UNCHANGED <<lead_num, fill>>
    /\ UNCHANGED engVars

\* line 43: self.data[lead] += np.random.normal(0, 0.03, 500)
AddNoise ==
    /\ cpc = "noise"
    /\ fill' = AddSlice(fill, 0, N, "noise")
    /\ cpc' = "done"
    /\ UNCHANGED <<lead_num, i>>
    /\ UNCHANGED engVars

CtorNext ==
    \/ Guard
    \/ OverlayP
    \/ OverlayQ
    \/ OverlayR
    \/ OverlayS
    \/ OverlayT
    \/ LoopNext
    \/ AddNoise

InitCtor == seed \in ConcSeeds /\ budget = MaxPreempt /\ EngineInit /\ CtorInit

SpecInit == InitCtor /\ [][CtorNext]_vars

-----------------------------------------------------------------------------
(* Channel keys.  self.data is a dictionary keyed by the strings           *)
(* f"lead_{i}" for i in range(1, 13) (line 15); update_data parses the     *)
(* number back out of each key (line 52) and get_plot_base64 formats the   *)
(* key of the lead it is asked for (line 78).  A key is the sequence of    *)
(* its characters; entry c of `data` is the c-th key bound at line 15.     *)

Digit == <<"0", "1", "2", "3", "4", "5", "6", "7", "8", "9">>

\* str(n) for n >= 0.
RECURSIVE Dec(_)
Dec(n) == IF n < 10 THEN <<Digit[n + 1]>>
          ELSE Dec(n \div 10) \o <<Digit[(n % 10) + 1]>>

\* f"lead_{n}"
FormatLead(n) == <<"l", "e", "a", "d", "_">> \o Dec(n)

\* Positions of the underscores of a key.
Underscores(key) == {q \in 1..Len(key) : key[q] = "_"}
Smallest(S) == CHOOSE q \in S : \A r \in S : q <= r

\* key.split('_')[1]: what lies between the first underscore and the next
\* one (or the end).
SplitField1(key) ==
    LET first == Smallest(Underscores(key))
        later == {q \in Underscores(key) : q > first}
        stop == IF later = {} THEN Len(key) ELSE Smallest(later) - 1
    IN  SubSeq(key, first + 1, stop)

\* int(s) for a string of decimal digits.
RECURSIVE IntOf(_)
IntOf(ds) ==
    IF Len(ds) = 0 THEN 0
    ELSE IntOf(SubSeq(ds, 1, Len(ds) - 1)) * 10
         + (CHOOSE v \in 0..9 : Digit[v + 1] = ds[Len(ds)])

\* line 52: lead_num = int(lead.split('_')[1])
ParseLead(key) == IntOf(SplitField1(key))

\* The key of entry c of the dictionary, as line 15 built it.
KeyAt(c) == FormatLead(c)

\* The keys of a dictionary held as entries 1, 2, ...
KeysOf(d) == {KeyAt(c) : c \in DOMAIN d}

\* d[key]; the caller has checked that the key is there (KeyError otherwise).
Lookup(d, key) == d[CHOOSE c \in DOMAIN d : KeyAt(c) = key]

-----------------------------------------------------------------------------
(* Request handling: update_ecg (lines 107-118) runs update_data (lines    *)
(* 45-71) and then get_plot_base64 (lines 73-96) for leads 1..12.  The     *)
(* server runs handlers in threads on the one module-level ecg_data (line  *)
(* 100, app.run at line 226); a slot is one handler thread.  A thread can  *)
(* be switched out between any two of the steps below.  A step groups the  *)
(* shared accesses of one expression: np.roll's read of the buffer, the    *)
(* assignment of its result, the draws of one lead's new_points, the tail  *)
(* write (entry lookup and slice assignment together), one plot.           *)

Busy(t) == t # 0 /\ pc[t] # "idle"

\* The interpreter runs one thread at a time; a switch away from a handler
\* that has not finished is a preemption, of which a run has at most `budget`.
Sched(t) ==
    /\ running' = t
    /\ IF running # t /\ Busy(running)
       THEN preempts < budget /\ preempts' = preempts + 1
       ELSE preempts' = preempts

\* Mutant: update_data is started by a timer, not by a request.
Accept_timer(t, limit) ==
    /\ pc[t] = "idle"
    /\ committed < limit
    /\ \A u \in Slots : u < t => pc[u] # "idle"
    /\ Sched(t)
    /\ call' = [call EXCEPT ![t] = committed + 1]
    /\ lead' = [lead EXCEPT ![t] = 1]
    /\ pc' = [pc EXCEPT ![t] = "roll"]
    /\ UNCHANGED <<seed, drawn, data, rolled, before, new_points, ret, plots, accepted, committed>>
    /\ UNCHANGED <<ctorVars, budget>>

\* Mutant: the handler plots without calling update_data.
Accept_noupdate(t, limit) ==
    /\ pc[t] = "idle"
    /\ accepted < limit
    /\ \A u \in Slots : u < t => pc[u] # "idle"
    /\ Sched(t)
    /\ accepted' = accepted + 1
    /\ call' = [call EXCEPT ![t] = accepted + 1]
    /\ lead' = [lead EXCEPT ![t] = 1]
    /\ pc' = [pc EXCEPT ![t] = "plot"]
    /\ UNCHANGED <<seed, drawn, data, rolled, before, new_points, ret, plots, committed>>
    /\ UNCHANGED <<ctorVars, budget>>

\* line 108: a request is handed to the lowest free slot.
Accept(t, limit) ==
    /\ pc[t] = "idle"
    /\ accepted < limit
    /\ \A u \in Slots : u < t => pc[u] # "idle"
    /\ Sched(t)
    /\ accepted' = accepted + 1
    /\ call' = [call EXCEPT ![t] = accepted + 1]
    /\ lead' = [lead EXCEPT ![t] = 1]
    /\ pc' = [pc EXCEPT ![t] = "roll"]
    /\ UNCHANGED <<seed, drawn, data, rolled, before, new_points, ret, plots, committed>>
    /\ UNCHANGED <<ctorVars, budget>>

\* line 49, right-hand side: np.roll(self.data[lead], -5) builds a new array.
\* `before` remembers the array it read: the lead's buffer as this
\* update_data call found it.
Roll(t) ==
    /\ pc[t] = "roll"
    /\ Sched(t)
    /\ rolled' = [rolled EXCEPT ![t] = np_roll(data[lead[t]], K)]
    /\ before' = [before EXCEPT ![t] = data[lead[t]]]
    /\ pc' = [pc EXCEPT ![t] = "store"]
    /\ UNCHANGED <<seed, drawn, data, call, lead, new_points, ret, plots, accepted, committed>>
    /\ UNCHANGED <<ctorVars, budget>>

\* Mutant: the rolled array is bound under a key built from the wrong number.
Store_newkey(t) ==
    /\ pc[t] = "store"
    /\ Sched(t)
    /\ data' = ((lead[t] + NumLeads) :> rolled[t]) @@ data
    /\ rolled' = [rolled EXCEPT ![t] = <<>>]
    /\ pc' = [pc EXCEPT ![t] = "gen"]
    /\ UNCHANGED <<seed, drawn, call, lead, before, new_points, ret, plots, accepted, committed>>
    /\ UNCHANGED <<ctorVars, budget>>

\* line 49, the assignment: self.data[lead] = <the rolled array>.
Store(t) ==
    /\ pc[t] = "store"
    /\ Sched(t)
    /\ data' = [data EXCEPT ![lead[t]] = rolled[t]]
    /\ rolled' = [rolled EXCEPT ![t] = <<>>]
    /\ pc' = [pc EXCEPT ![t] = "gen"]
    /\ UNCHANGED <<seed, drawn, call, lead, before, new_points, ret, plots, accepted, committed>>
    /\ UNCHANGED <<ctorVars, budget>>

\* Mutant: the R spike lands on new_points[3].
GenerateWith_index(t, spike) ==
    /\ pc[t] = "gen"
    /\ Sched(t)
    /\ new_points' = [new_points EXCEPT ![t] =
          [x \in 1..K |->
              NewSample(call[t], x - 1,
                        IF x - 1 = 3 /\ spike
                        THEN RFactor(ParseLead(KeyAt(lead[t]))) ELSE 0,
                        drawn + x)]]
    /\ drawn' = drawn + DrawsPerLead
    /\ pc' = [pc EXCEPT ![t] = "tail"]
    /\ UNCHANGED <<seed, data, call, lead, rolled, before, ret, plots, accepted, committed>>
    /\ UNCHANGED <<ctorVars, budget>>

\* lines 58-66: new_points = baseline, plus the spike on new_points[2] when
\* `spike` holds, plus K normal draws of noise; the random source moves on
\* by the uniform draw and the K normal draws.
GenerateWith(t, spike) ==
    /\ pc[t] = "gen"
    /\ Sched(t)
    /\ new_points' = [new_points EXCEPT ![t] =
          [x \in 1..K |->
              NewSample(call[t], x - 1,
                        IF x - 1 = 2 /\ spike
                        THEN RFactor(ParseLead(KeyAt(lead[t]))) ELSE 0,
                        drawn + x)]]
    /\ drawn' = drawn + DrawsPerLead
    /\ pc' = [pc EXCEPT ![t] = "tail"]
    /\ UNCHANGED <<seed, data, call, lead, rolled, before, ret, plots, accepted, committed>>
    /\ UNCHANGED <<ctorVars, budget>>

\* Mutant: the spike is decided by a source outside the seeded stream.
Generate_unseeded(t) == \E coin \in BOOLEAN : GenerateWith(t, coin)

\* line 62: if np.random.random() < 0.1
Generate(t) == GenerateWith(t, Uniform(seed, drawn) = 0)

\* line 69: self.data[lead][-5:] = new_points, then the loop of line 47
\* moves to the next lead or falls through to the return.
TailWrite(t) ==
    /\ pc[t] = "tail"
    /\ Sched(t)
    /\ data' = [data EXCEPT ![lead[t]] = SetTail(@, new_points[t])]
    /\ IF lead[t] < NumLeads
       THEN /\ lead' = [lead EXCEPT ![t] = @ + 1]
            /\ pc' = [pc EXCEPT ![t] = "roll"]
       ELSE /\ lead' = lead
            /\ pc' = [pc EXCEPT ![t] = "ret"]
    /\ UNCHANGED <<seed, drawn, call, rolled, before, new_points, ret, plots, accepted, committed>>
    /\ UNCHANGED <<ctorVars, budget>>

\* line 71: return self.data: the caller gets the dictionary itself, no copy;
\* update_data's locals are gone.  update_ecg (line 111) goes on to the
\* plots, lead 1 first.
Return(t) ==
    /\ pc[t] = "ret"
    /\ Sched(t)
    /\ ret' = [ret EXCEPT ![t] = "self.data"]
    /\ committed' = committed + 1
    /\ new_points' = [new_points EXCEPT ![t] = <<>>]
    /\ before' = [before EXCEPT ![t] = <<>>]
    /\ plots' = [plots EXCEPT ![t] = <<>>]
    /\ lead' = [lead EXCEPT ![t] = 1]
    /\ pc' = [pc EXCEPT ![t] = "plot"]
    /\ UNCHANGED <<seed, drawn, data, call, rolled, accepted>>
    /\ UNCHANGED <<ctorVars, budget>>

\* Mutant: get_plot_base64 advances the lead it plots.
GetPlot_rolls(t) ==
    /\ pc[t] = "plot"
    /\ Sched(t)
    /\ data' = [data EXCEPT ![lead[t]] = np_roll(@, K)]
    /\ plots' = [plots EXCEPT ![t] = Append(@, data[lead[t]])]
    /\ IF lead[t] < NumLeads
       THEN /\ lead' = [lead EXCEPT ![t] = @ + 1]
            /\ pc' = pc
       ELSE /\ lead' = lead
            /\ pc' = [pc EXCEPT ![t] = "respond"]
    /\ UNCHANGED <<seed, drawn, call, rolled, before, new_points, ret, accepted, committed>>
    /\ UNCHANGED <<ctorVars, budget>>

\* What a plot shows of a buffer: the y-data of its line, one point a sample.
Plot(buf) == [q \in 1..Len(buf) |-> buf[q]]

\* lines 115-116 and 73-96: plots[lead_i] = get_plot_base64(i), which reads
\* self.data[f"lead_{i}"] as it is at that moment (KeyError if the key is
\* missing: the handler ends without a response).
GetPlot(t) ==
    /\ pc[t] = "plot"
    /\ Sched(t)
    /\ IF FormatLead(lead[t]) \in KeysOf(data)
       THEN /\ plots' = [plots EXCEPT ![t] =
                            Append(@, Plot(Lookup(data, FormatLead(lead[t]))))]
            /\ IF lead[t] < NumLeads
               THEN /\ lead' = [lead EXCEPT ![t] = @ + 1]
                    /\ pc' = pc
               ELSE /\ lead' = lead
                    /\ pc' = [pc EXCEPT ![t] = "respond"]
       ELSE /\ plots' = plots
            /\ lead' = lead
            /\ pc' = [pc EXCEPT ![t] = "raised"]
    /\ UNCHANGED <<seed, drawn, data, call, rolled, before, new_points, ret, accepted, committed>>
    /\ UNCHANGED <<ctorVars, budget>>

\* line 118: return jsonify(plots); the handler's frame is gone.
Respond(t) ==
    /\ pc[t] = "respond"
    /\ Sched(t)
    /\ plots' = [plots EXCEPT ![t] = <<>>]
    /\ lead' = [lead EXCEPT ![t] = 0]
    /\ pc' = [pc EXCEPT ![t] = "idle"]
    /\ UNCHANGED <<seed, drawn, data, call, rolled, before, new_points, ret, accepted, committed>>
    /\ UNCHANGED <<ctorVars, budget>>

\* The constructor is over while requests are served.
CtorDone ==
    /\ lead_num = NumLeads
    /\ i = ComplexFirst
    /\ cpc = "done"
    /\ fill = <<>>

Init == seed \in ConcSeeds /\ budget = MaxPreempt /\ EngineInit /\ CtorDone

InitSeq == seed \in Seeds /\ budget = MaxPreempt /\ EngineInit /\ CtorDone

\* Concurrent handlers: every slot serves one request.
Next ==
    \/ \E t \in Slots : Accept(t, Cardinality(Slots))
    \/ \E t \in Slots : Roll(t)
    \/ \E t \in Slots : Store(t)
    \/ \E t \in Slots : Generate(t)
    \/ \E t \in Slots : TailWrite(t)
    \/ \E t \in Slots : Return(t)
    \/ \E t \in Slots : GetPlot(t)
    \/ \E t \in Slots : Respond(t)

Spec == Init /\ [][Next]_vars

\* The same handlers with one more preemption: enough for a handler to be
\* switched out while plotting and switched back in.
InitDeep == seed \in ConcSeeds /\ budget = MaxPreempt + 1 /\ EngineInit /\ CtorDone

SpecDeep == InitDeep /\ [][Next]_vars

\* One handler at a time: requests are served one after another.
NextSeq ==
    \/ \E t \in SeqSlots : Accept(t, MaxTicks)
    \/ \E t \in SeqSlots : Roll(t)
    \/ \E t \in SeqSlots : Store(t)
    \/ \E t \in SeqSlots : Generate(t)
    \/ \E t \in SeqSlots : TailWrite(t)
    \/ \E t \in SeqSlots : Return(t)
    \/ \E t \in SeqSlots : GetPlot(t)
    \/ \E t \in SeqSlots : Respond(t)

SpecSeq == InitSeq /\ [][NextSeq]_vars

\* lines 52-66 for lead c of call n, when the stream stands at draw d.
NewPoints(n, c, d) ==
    [x \in 1..K |->
        NewSample(n, x - 1,
                  IF x - 1 = 2 /\ Uniform(seed, d) = 0
                  THEN RFactor(ParseLead(KeyAt(c))) ELSE 0,
                  d + x)]

\* lines 45-71 run from the first line to the last with nothing in between:
\* update_data called directly, every lead rolled and given its new points in
\* the order of the loop.
UpdateData(limit) ==
    /\ \A t \in Slots : pc[t] = "idle"
    /\ accepted < limit
    /\ data' = [c \in Leads |->
                   SetTail(np_roll(data[c], K),
                           NewPoints(accepted + 1, c, drawn + (c - 1) * DrawsPerLead))]
    /\ drawn' = drawn + NumLeads * DrawsPerLead
    /\ accepted' = accepted + 1
    /\ committed' = committed + 1
    /\ UNCHANGED <<seed, pc, call, lead, rolled, before, new_points, ret, plots, running, preempts>>
    /\ UNCHANGED <<ctorVars, budget>>

\* update_data called again and again by one caller.
NextCalls == UpdateData(MaxTicks)

SpecCalls == InitSeq /\ [][NextCalls]_vars

\* A handler that has been started keeps being scheduled until it responds;
\* nothing obliges a client to send a request.
HandlerStep ==
    \E t \in SeqSlots :
        Roll(t) \/ Store(t) \/ Generate(t) \/ TailWrite(t) \/ Return(t) \/ GetPlot(t) \/ Respond(t)

FairSeq == InitSeq /\ [][NextSeq]_vars /\ WF_vars(HandlerStep)

-----------------------------------------------------------------------------
(* Properties *)

InUpdate(t) == pc[t] \in {"roll", "store", "gen", "tail"}
NoUpdateInProgress == \A t \in Slots : ~InUpdate(t) /\ pc[t] # "ret"

\* a[start:stop] names samples start..stop-1 of the array as written.
SliceInside(start, stop, len) == 0 <= start /\ start <= stop /\ stop <= len

\* C1: construction completes without raising, and every overlay write of a
\* complex (P on [i-10, i), Q at i, R on [i+1, i+3), S on [i+3, i+5), T on
\* [i+8, i+15)) targets a slice inside 0..N-1 as long as its overlay.
C1_OverlaysFit ==
    /\ cpc # "raised"
    /\ cpc = "P" => SliceInside(i - 10, i, N) /\ SliceLen(i - 10, i, N) = PLen
    /\ cpc = "Q" => SliceInside(i, i + 1, N)
    /\ cpc = "R" => SliceInside(i + 1, i + 3, N) /\ SliceLen(i + 1, i + 3, N) = RLen
    /\ cpc = "S" => SliceInside(i + 3, i + 5, N) /\ SliceLen(i + 3, i + 5, N) = SLen
    /\ cpc = "T" => SliceInside(i + 8, i + 15, N) /\ SliceLen(i + 8, i + 15, N) = TLen

\* The lead whose tail slot t has just written, 0 if none.
JustWritten(t) ==
    IF pc[t] = "roll" /\ lead[t] > 1 THEN lead[t] - 1
    ELSE IF pc[t] = "ret" THEN NumLeads ELSE 0

\* C2: after update_data has rolled a lead without interleaving, the first
\* N-K samples of its buffer are the last N-K samples it had before, in
\* order, and the last K samples are the new_points generated for it.
C2_FifoRoll ==
    \A t \in SeqSlots :
        JustWritten(t) # 0 =>
            /\ \A p \in 0..(N - K - 1) :
                  At(data[JustWritten(t)], p) = At(before[t], p + K)
            /\ \A x \in 0..(K - 1) :
                  At(data[JustWritten(t)], N - K + x) = At(new_points[t], x)

\* A second request has rolled its last lead: the buffer before held new samples.
C2_Witness == pc[1] = "ret" /\ call[1] = 2 /\ ~IsFill(At(before[1], N - 1))

\* C3: every channel's buffer (and every array np.roll has built) has
\* exactly N samples in every state, inside update_data and under every
\* interleaving of handlers.
C3_FixedLength ==
    /\ \A c \in Leads : Len(data[c]) = N
    /\ \A t \in Slots : rolled[t] # <<>> => Len(rolled[t]) = N

\* Two update_data calls are in their loops at once.
C3_Witness == pc[1] = "tail" /\ pc[2] = "store" /\ lead[1] = lead[2]

\* Request n has left samples in the buffer.
Reflects(buf, n) == \E q \in 1..Len(buf) : CallOf(buf[q]) = n

\* C4: the 12 buffers one request plots never show some channels with a
\* tick's samples and others without them.
C4_NoTornRead ==
    \A t \in Slots : \A n \in 1..accepted :
        \A a, b \in 1..Len(plots[t]) :
            Reflects(plots[t][a], n) = Reflects(plots[t][b], n)

\* The mapping the caller of update_data holds: the dictionary itself.
Returned(t) == IF ret[t] = "self.data" THEN data ELSE <<>>

\* C5: the mapping update_data returned keeps the sample values it had at
\* the moment of return, whatever update_data calls run afterwards.
C5_ReturnedMappingFrozen ==
    [][\A t \in Slots :
          (ret[t] = "self.data" /\ ret'[t] = "self.data") => Returned(t)' = Returned(t)]_vars

\* A step of the handler in slot t.
StepOf(t) == pc'[t] # pc[t] \/ lead'[t] # lead[t]

C8_MutualExclusion ==
    \A t, u \in Slots :
        (t # u /\ InUpdate(t)) => ~(InUpdate(u) \/ pc[u] = "plot")

\* Samples by which a buffer's window has moved off the initial fill: the
\* fill position of its oldest sample (N once no fill sample heads it).
Advanced(buf) == IF IsFill(At(buf, 0)) THEN At(buf, 0) ELSE N

\* C9: whenever no update_data call is in progress, every channel has been
\* advanced by K samples for each completed update_data call.
C9_SameAdvance ==
    NoUpdateInProgress => \A c \in Leads : Advanced(data[c]) = K * committed

\* The buffer of lead c after n ticks served one after another on stream sd.
Expected(sd, n, c) ==
    [q \in 1..N |->
        IF (q - 1) + K * n < N
        THEN FillSample((q - 1) + K * n)
        ELSE LET r == N - q
                 m == n - (r \div K)
                 x == (K - 1) - (r % K)
                 d == CtorDraws + ((m - 1) * NumLeads + (c - 1)) * DrawsPerLead
             IN  NewSample(m, x,
                           IF x = 2 /\ Uniform(sd, d) = 0 THEN RFactor(c) ELSE 0,
                           d + x + 1)]

\* C10: the buffers after n ticks are a function of the random stream and n
\* alone: two engines on the same stream hold the same buffers after every tick.
C10_Deterministic ==
    NoUpdateInProgress => \A c \in Leads : data[c] = Expected(seed, committed, c)

\* Two ticks done, the second with a spike on lead 9 of stream 0.
C10_Witness ==
    /\ committed = 2
    /\ pc[1] = "plot"
    /\ \E c \in Leads : SpikeOf(At(data[c], N - K + 2)) # 0

\* Ticks of one full rotation of a buffer: N / K.
FullRotation == N \div K

\* C11: ticks served one after another rotate the window sample by sample:
\* after n <= N/K of them the first N-K*n positions still hold the fill, moved
\* up by K*n, and the positions after them hold the new samples in order of
\* arrival. After N/K = 100 ticks no fill sample is left: position j holds
\* new sample j mod K of tick (j div K) + 1.
C11_FullRotation ==
    (NoUpdateInProgress /\ committed <= FullRotation) =>
        \A c \in Leads :
            /\ Len(data[c]) = N
            /\ \A j \in 0..(N - 1) :
                  LET first == N - K * committed IN
                  IF j < first
                  THEN At(data[c], j) = FillSample(j + K * committed)
                  ELSE /\ ~IsFill(At(data[c], j))
                       /\ CallOf(At(data[c], j)) = ((j - first) \div K) + 1
                       /\ IdxOf(At(data[c], j)) = (j - first) % K

\* The hundredth call in a row has returned.
C11_Witness ==
    /\ committed = FullRotation
    /\ NoUpdateInProgress
    /\ CallOf(At(data[NumLeads], 0)) = 1
    /\ CallOf(At(data[NumLeads], N - 1)) = FullRotation

\* The twelve channel names, spelled out.
LeadNames ==
    {<<"l", "e", "a", "d", "_", "1">>, <<"l", "e", "a", "d", "_", "2">>,
     <<"l", "e", "a", "d", "_", "3">>, <<"l", "e", "a", "d", "_", "4">>,
     <<"l", "e", "a", "d", "_", "5">>, <<"l", "e", "a", "d", "_", "6">>,
     <<"l", "e", "a", "d", "_", "7">>, <<"l", "e", "a", "d", "_", "8">>,
     <<"l", "e", "a", "d", "_", "9">>, <<"l", "e", "a", "d", "_", "1", "0">>,
     <<"l", "e", "a", "d", "_", "1", "1">>, <<"l", "e", "a", "d", "_", "1", "2">>}

\* The keys of the plots dictionary a handler has filled so far (line 116).
PlotKeys(t) == {FormatLead(j) : j \in 1..Len(plots[t])}

\* C12: the state exposed to consumers carries a version/tick counter
\* (which never decreases and grows by one per committed tick): the
\* response holds a field besides the channels.
C12_ResponseCarriesVersion ==
    \A t \in Slots :
        pc[t] = "respond" => \E k \in PlotKeys(t) \cup KeysOf(Returned(t)) : k \notin LeadNames

\* C13: the channel mapping has exactly the 12 keys lead_1 .. lead_12 in
\* every state, and every get_plot_base64(i), i in 1..12, finds its channel.
C13_TwelveChannels ==
    /\ KeysOf(data) = LeadNames
    /\ Cardinality(KeysOf(data)) = NumLeads
    /\ \A t \in Slots : pc[t] # "raised"
    /\ \A n \in 1..NumLeads : FormatLead(n) \in KeysOf(data)

\* Both handlers are at work, one updating lead_12, one plotting it.
C13_Witness ==
    /\ pc[1] = "plot" /\ lead[1] = NumLeads
    /\ pc[2] = "gen" /\ lead[2] = NumLeads

\* Slot u has rolled lead c and not yet overwritten its tail (lines 49-69).
BetweenShiftAndTail(u, c) == pc[u] \in {"gen", "tail"} /\ lead[u] = c

\* buf is window w shifted left by K with w's K oldest samples wrapped
\* around to the tail.
HalfRolled(buf, w) ==
    /\ \A p \in 0..(N - K - 1) : At(buf, p) = At(w, p + K)
    /\ \A x \in 0..(K - 1) : At(buf, N - K + x) = At(w, x)

\* C14: no plot shows the buffer that exists between the circular shift and
\* the tail overwrite of a concurrent update_data.
C14_NoHalfRolledSeen ==
    \A t, u \in Slots : \A c \in 1..Len(plots[t]) :
        ~(t # u /\ BetweenShiftAndTail(u, c) /\ HalfRolled(plots[t][c], before[u]))

\* Position in the random stream of the line-62 draw of lead c in request n.
SpikeDraw(n, c) == CtorDraws + ((n - 1) * NumLeads + (c - 1)) * DrawsPerLead

\* C15: a tick gives every lead exactly K new samples; only new_points[2]
\* (buffer index N-3 right after the write) can carry a spike, the spike is
\* scaled by 1 + (lead_num % 3) * 0.5, and it is there exactly when the
\* lead's own draw of that tick fell below 0.1.
C15_SpikePerChannel ==
    \A t \in SeqSlots :
        LET c == JustWritten(t) IN
        c # 0 =>
            /\ Len(new_points[t]) = K
            /\ \A x \in 0..(K - 1) :
                  /\ At(data[c], N - K + x) = At(new_points[t], x)
                  /\ ~IsFill(At(new_points[t], x))
                  /\ CallOf(At(new_points[t], x)) = call[t]
                  /\ IdxOf(At(new_points[t], x)) = x
                  /\ x # 2 => SpikeOf(At(new_points[t], x)) = 0
            /\ SpikeOf(At(data[c], N - 3)) \in {0, 2 + (c % 3)}
            /\ SpikeOf(At(data[c], N - 3)) # 0
                  <=> Uniform(seed, SpikeDraw(call[t], c)) = 0
            /\ NoiseOf(At(new_points[t], 0)) = SpikeDraw(call[t], c) + 1

\* A tick in which lead_12 got a spike and lead_11 got none.
C15_Witness ==
    /\ pc[1] = "ret"
    /\ SpikeOf(At(data[NumLeads], N - 3)) = 2 + (NumLeads % 3)
    /\ SpikeOf(At(data[NumLeads - 1], N - 3)) = 0
    /\ Len(new_points[1]) = K

\* Positions first..first+K-1 of buf hold, in order, the K new_points of one
\* request.
IntactBlock(buf, first) ==
    \A x \in 0..(K - 1) :
        /\ ~IsFill(At(buf, first + x))
        /\ IdxOf(At(buf, first + x)) = x
        /\ CallOf(At(buf, first + x)) = CallOf(At(buf, first))

\* buf is what m update_data calls applied one after another, in some
\* order, leave of the initial fill.
SerialResult(buf, m) ==
    /\ Len(buf) = N
    /\ \A p \in 0..(N - K * m - 1) : At(buf, p) = FillSample(p + K * m)
    /\ \A b \in 0..(m - 1) : IntactBlock(buf, N - K * m + K * b)
    /\ \A b1, b2 \in 0..(m - 1) :
          b1 # b2 => CallOf(At(buf, N - K * m + K * b1))
                        # CallOf(At(buf, N - K * m + K * b2))

\* C16: once all started update_data calls have completed, every buffer is
\* the result of applying the completed calls sequentially in some order:
\* nothing lost, duplicated or brought back.
C16_SerialisableCommits ==
    NoUpdateInProgress => \A c \in Leads : SerialResult(data[c], committed)

\* Samples by which a buffer's window has moved since construction, read off
\* its oldest sample.
Shifted(buf) ==
    IF IsFill(At(buf, 0)) THEN At(buf, 0)
    ELSE N + K * (CallOf(At(buf, 0)) - 1) + IdxOf(At(buf, 0))

\* C17: a request served alone makes exactly one update_data call, which has
\* returned before the first lead is plotted; after n such requests every
\* buffer has moved by K*n samples, and the n-th response holds, for each of
\* the NumLeads leads, the buffer as tick n left it.
C17_OneTickPerRequest ==
    \A t \in SeqSlots :
        /\ (InUpdate(t) \/ pc[t] = "ret") =>
              /\ plots[t] = <<>>
              /\ committed = call[t] - 1
        /\ pc[t] \in {"plot", "respond"} =>
              /\ committed = call[t]
              /\ accepted = call[t]
              /\ \A c \in Leads : Shifted(data[c]) = K * call[t]
              /\ \A j \in 1..Len(plots[t]) :
                    /\ plots[t][j] = data[j]
                    /\ CallOf(At(plots[t][j], N - 1)) = call[t]
                    /\ IdxOf(At(plots[t][j], N - 1)) = K - 1
        /\ pc[t] = "respond" => Len(plots[t]) = NumLeads
        /\ pc[t] = "idle" =>
              /\ committed = accepted
              /\ \A c \in Leads : Shifted(data[c]) = K * committed

\* The second request served alone is about to send its response.
C17_Witness ==
    /\ pc[1] = "respond"
    /\ call[1] = 2
    /\ committed = 2
    /\ Len(plots[1]) = NumLeads
    /\ Shifted(data[NumLeads]) = 2 * K

====
